---- MODULE Spec2Model ----
(***************************************************************************)
(* Model of the Vedawave chat backend: the persisted rows (chats,          *)
(* messages, reactions, users' presence), the in-memory connection         *)
(* registry of websocket_manager.py and the HTTP / WebSocket handlers of   *)
(* main.py that act on them.  A handler runs to its end (or to the         *)
(* exception that ends it) in one step: the persistence calls are          *)
(* synchronous and the handlers share one event loop.  Each handler is an  *)
(* operator from the current state and the request to the handler's        *)
(* outcome (the rows it leaves, its answer, the events it pushed); the     *)
(* action of the handler installs that outcome.                            *)
(***************************************************************************)
EXTENDS Integers, Sequences, FiniteSets, TLC

VARIABLES chats, messages, reactions, users, sessions, active_connections,
          clock, deleted_content, friend_requests, friendships, attachments

vars == <<chats, messages, reactions, users, sessions, active_connections,
          clock, deleted_content, friend_requests, friendships, attachments>>

(***************************************************************************)
(* Bounds of the model.                                                    *)
(***************************************************************************)
MaxMessages == 2
MaxReactions == 1
MaxSessions == 2
MaxToggled == 3
MaxChats == 2
MaxFriendRequests == 2
MaxFriendships == 2
MaxClock == 3

Users == {1, 2}
Contents == {"a", "b"}
Emojis == {"+", "-"}
SessionIds == 1..MaxSessions

\* an id that names no user, and the ids a request can name
NoSuchUser == 3
UserIds == Users \cup {NoSuchUser}

\* the tokens a connection can present: a token is signed with the
\* server's key and unexpired (valid) or not, and names a user id (sub)
Tokens == [sub : UserIds, valid : BOOLEAN]
ValidToken(user_id) == [sub |-> user_id, valid |-> TRUE]

\* the attachment lists a message frame can carry: an item is the file name
\* of a complete attachment object, or Malformed for an object that lacks
\* one of the keys the handler reads
Malformed == "malformed"
AttData == {<<>>, <<"f">>, <<"f", Malformed>>}

\* the status strings a request can submit ("blocked": any other string)
Statuses == {"pending", "accepted", "rejected", "blocked"}

None == 0
Tombstone == "This message was deleted"

(***************************************************************************)
(* Rows.                                                                   *)
(***************************************************************************)
\* models.py Message: the column defaults of a new row
Message(content, sender_id, chat_id, reply_to_message_id) ==
    [content |-> content, is_edited |-> FALSE, is_deleted |-> FALSE,
     sender_id |-> sender_id, chat_id |-> chat_id,
     reply_to_message_id |-> reply_to_message_id,
     status |-> "sent", delivered_at |-> None, seen_at |-> None]

\* models.py Chat
Chat(user1_id, user2_id) == [user1_id |-> user1_id, user2_id |-> user2_id]

\* models.py MessageReaction
MessageReaction(message_id, user_id, emoji) ==
    [message_id |-> message_id, user_id |-> user_id, emoji |-> emoji]

\* models.py Attachment
Attachment(message_id, filename) ==
    [message_id |-> message_id, filename |-> filename]

\* models.py FriendRequest: the column defaults of a new row
FriendRequest(sender_id, receiver_id) ==
    [sender_id |-> sender_id, receiver_id |-> receiver_id, status |-> "pending"]

\* models.py Friendship
Friendship(user1_id, user2_id) == [user1_id |-> user1_id, user2_id |-> user2_id]

\* mutant: the lookup in the caller's direction only
existing_chat_OneWay(rows, current_user, user_id) ==
    {i \in DOMAIN rows :
        rows[i].user1_id = current_user /\ rows[i].user2_id = user_id}

\* create_chat: the rows after current_user asks for a chat with user_id
existing_chat(rows, current_user, user_id) ==
    {i \in DOMAIN rows :
        \/ rows[i].user1_id = current_user /\ rows[i].user2_id = user_id
        \/ rows[i].user1_id = user_id /\ rows[i].user2_id = current_user}

create_chat(rows, current_user, user_id) ==
    IF existing_chat(rows, current_user, user_id) # {}
    THEN rows
    ELSE Append(rows, Chat(current_user, user_id))

participants(chat) == <<chat.user1_id, chat.user2_id>>

(***************************************************************************)
(* websocket_manager.py ConnectionManager.  A registry entry is a session  *)
(* id, None when the user has no entry.  A push to a session whose handler *)
(* has ended raises; a push to an open session raises when the transport   *)
(* fails (the input fail).                                                 *)
(***************************************************************************)
\* mutant: a user with an entry keeps it
connect_KeepsFirst(reg, websocket, user_id) ==
    IF reg[user_id] # None THEN reg ELSE [reg EXCEPT ![user_id] = websocket]

connect(reg, websocket, user_id) == [reg EXCEPT ![user_id] = websocket]

disconnect(reg, user_id) == [reg EXCEPT ![user_id] = None]

send_to_user(reg, sess, user_id, fail) ==
    IF reg[user_id] # None
    THEN IF sess[reg[user_id]].st = "open" /\ ~fail
         THEN [reg |-> reg, tried |-> 1, recv |-> 1]
         ELSE [reg |-> disconnect(reg, user_id), tried |-> 1, recv |-> 0]
    ELSE [reg |-> reg, tried |-> 0, recv |-> 0]

\* one task per listed user that is registered at the call; the tasks run
\* in order, each looking the user up again
send_to_users(reg, sess, user_ids, fail) ==
    LET skip(r) == [reg |-> r, tried |-> 0, recv |-> 0]
        r1 == IF reg[user_ids[1]] # None
              THEN send_to_user(reg, sess, user_ids[1], fail[1])
              ELSE skip(reg)
        r2 == IF reg[user_ids[2]] # None
              THEN send_to_user(r1.reg, sess, user_ids[2], fail[2])
              ELSE skip(r1.reg)
    IN  [reg |-> r2.reg,
         tried |-> [u \in Users |->
                      (IF u = user_ids[1] THEN r1.tried ELSE 0)
                    + (IF u = user_ids[2] THEN r2.tried ELSE 0)],
         recv |-> [u \in Users |->
                      (IF u = user_ids[1] THEN r1.recv ELSE 0)
                    + (IF u = user_ids[2] THEN r2.recv ELSE 0)]]

NoPush == [u \in Users |-> 0]

\* broadcast: one send_personal_message per registry entry; a push that
\* raises is logged and the registry is left as it is
broadcast(reg, sess, fail) ==
    [reg |-> reg,
     tried |-> [u \in Users |-> IF reg[u] # None THEN 1 ELSE 0],
     recv |-> [u \in Users |->
                 IF reg[u] # None /\ sess[reg[u]].st = "open" /\ ~fail[u]
                 THEN 1 ELSE 0]]

\* a WebSocket object whose handler has ended and that the registry no
\* longer holds is unreachable: its slot is free again
Collect(sess, reg) ==
    [s \in SessionIds |->
        IF sess[s].st = "ended" /\ \A u \in Users : reg[u] # s
        THEN [user |-> None, st |-> "free"]
        ELSE sess[s]]

FreeSlots == {s \in SessionIds : sessions[s].st = "free"}
OpenSessions == {s \in SessionIds : sessions[s].st = "open"}
LowestFree == CHOOSE s \in FreeSlots : \A t \in FreeSlots : s <= t

(***************************************************************************)
(* The checks and row updates of the message routes.                       *)
(***************************************************************************)
\* get_messages: the chat filter (404 otherwise)
IsParticipant(chat_id, user_id) ==
    /\ chat_id \in DOMAIN chats
    /\ (chats[chat_id].user1_id = user_id \/ chats[chat_id].user2_id = user_id)

\* mutant: the comparison with the viewer inverted
ShouldMarkSeen_Own(m, viewer) == m.sender_id = viewer /\ m.status # "seen"

\* get_messages: which rows the viewer's fetch marks
ShouldMarkSeen(m, viewer) == m.sender_id # viewer /\ m.status # "seen"

\* mutant: the rows of other senders whatever their status
seen_messages_All(chat_id, viewer) ==
    {i \in DOMAIN messages :
        messages[i].chat_id = chat_id /\ messages[i].sender_id # viewer}

seen_messages(chat_id, viewer) ==
    {i \in DOMAIN messages :
        messages[i].chat_id = chat_id /\ ShouldMarkSeen(messages[i], viewer)}

\* mutant: the status written without the timestamp
MarkSeen_NoStamp(m, now) == [m EXCEPT !.status = "seen"]

MarkSeen(m, now) == [m EXCEPT !.status = "seen", !.seen_at = now]

\* mutant: the sender check left out
IsSender_Unchecked(m, user_id) == TRUE

\* edit_message / delete_message: the sender check (403 otherwise)
IsSender(m, user_id) == m.sender_id = user_id

\* mutant: the edit writes the row back with the column defaults
EditedRow_ResetsStatus(m, content) ==
    [m EXCEPT !.content = content, !.is_edited = TRUE, !.status = "sent",
              !.seen_at = None]

EditedRow(m, content) == [m EXCEPT !.content = content, !.is_edited = TRUE]

\* mutant: the delete writes the row back with the column defaults
DeletedRow_ResetsStatus(m) ==
    [m EXCEPT !.is_deleted = TRUE, !.content = Tombstone, !.status = "sent"]

DeletedRow(m) == [m EXCEPT !.is_deleted = TRUE, !.content = Tombstone]

\* mutant: the status filter left out
unread_count_AnyStatus(msgs, chat_id, viewer) ==
    Cardinality({i \in DOMAIN msgs :
        msgs[i].chat_id = chat_id /\ msgs[i].sender_id # viewer})

\* get_chats: the unread count of one chat for the viewer
unread_count(msgs, chat_id, viewer) ==
    Cardinality({i \in DOMAIN msgs :
        /\ msgs[i].chat_id = chat_id
        /\ msgs[i].sender_id # viewer
        /\ msgs[i].status # "seen"})

\* add_reaction: the rows of the triple (filter_by)
existing_reaction(rows, message_id, user_id, emoji) ==
    {i \in DOMAIN rows : rows[i] = MessageReaction(message_id, user_id, emoji)}

\* mutant: the delete of the found row lost
RemoveAt_Kept(rows, i) == rows

RemoveAt(rows, i) ==
    [j \in 1..(Len(rows) - 1) |-> IF j < i THEN rows[j] ELSE rows[j + 1]]

\* mutant: the lookup of the triple finds nothing
toggle_AlwaysAdds(rows, message_id, user_id, emoji) ==
    [action |-> "added",
     reactions |-> Append(rows, MessageReaction(message_id, user_id, emoji))]

\* add_reaction: the toggle of the triple on the reaction rows
toggle(rows, message_id, user_id, emoji) ==
    LET found == existing_reaction(rows, message_id, user_id, emoji)
    IN  IF found # {}
        THEN [action |-> "removed",
              reactions |-> RemoveAt(rows,
                                CHOOSE i \in found : \A j \in found : i <= j)]
        ELSE [action |-> "added",
              reactions |-> Append(rows,
                                MessageReaction(message_id, user_id, emoji))]

\* add_reaction: the rows of the message grouped by emoji, the groups in the
\* order their emoji first occurs, the users of a group in row order
RECURSIVE reaction_groups(_)
reaction_groups(rs) ==
    IF rs = <<>>
    THEN <<>>
    ELSE LET g == reaction_groups(SubSeq(rs, 1, Len(rs) - 1))
             r == rs[Len(rs)]
             hit == {k \in DOMAIN g : g[k].emoji = r.emoji}
         IN  IF hit = {}
             THEN Append(g, [emoji |-> r.emoji, users |-> <<r.user_id>>])
             ELSE [k \in DOMAIN g |->
                     IF k \in hit
                     THEN [emoji |-> g[k].emoji,
                           users |-> Append(g[k].users, r.user_id)]
                     ELSE g[k]]

\* mutant: every group reports the number of rows of the message
formatted_reactions_CountAll(rows, message_id) ==
    LET rs == SelectSeq(rows, LAMBDA r : r.message_id = message_id)
        g == reaction_groups(rs)
    IN  [k \in DOMAIN g |->
            [emoji |-> g[k].emoji, count |-> Len(rs), users |-> g[k].users]]

\* add_reaction: the aggregation it returns and broadcasts
formatted_reactions(rows, message_id) ==
    LET g == reaction_groups(
                 SelectSeq(rows, LAMBDA r : r.message_id = message_id))
    IN  [k \in DOMAIN g |->
            [emoji |-> g[k].emoji, count |-> Len(g[k].users),
             users |-> g[k].users]]

(***************************************************************************)
(* The handlers.  result is the handler's answer: "ok", "not_found" (404), *)
(* "forbidden" (403) or "error" (an uncaught exception: a 500 for a route, *)
(* the end of the handler for a WebSocket).  tried[u] / recv[u] count the  *)
(* pushes of the handler's event attempted on / received by user u's       *)
(* registered session; notified counts the status notifications pushed.    *)
(***************************************************************************)

\* websocket_endpoint: a frame of type "message" on session s, carrying the
\* attachment list att_data.  The message row is committed first.  The
\* attachment rows are added one by one and committed together; an att_data
\* item that lacks a key raises KeyError before that commit, which ends the
\* handler with the message stored and none of its attachments.  The message
\* event is then sent to the chat's participants, and the delivery loop
\* calls manager.update_message_status for every participant other than the
\* sender.  ConnectionManager has no such attribute: the call raises
\* AttributeError, which the handler does not catch (it catches
\* WebSocketDisconnect only), so the handler ends without its disconnect
\* cleanup, before delivered_at is assigned.  steps lists what the handler
\* did, in order.  The frame's chat_id and reply_to_message_id are stored as
\* received: for a chat_id of no chat the rows are stored and the lookup
\* of the participants raises AttributeError on None, before any push.
message_frame_with(s, chat_id, content, reply_to_message_id, att_data, fail) ==
    LET user_id == sessions[s].user
        id == Len(messages) + 1
        rows == Append(messages,
                       Message(content, user_id, chat_id, reply_to_message_id))
        key_error == \E k \in DOMAIN att_data : att_data[k] = Malformed
        sent == send_to_users(active_connections, sessions,
                              participants(chats[chat_id]), fail)
        raises == \E i \in 1..2 : participants(chats[chat_id])[i] # user_id
    IN  IF key_error
        THEN [result |-> "error", id |-> id, messages |-> rows,
              attachments |-> attachments,
              active_connections |-> active_connections,
              sessions |-> [sessions EXCEPT ![s].st = "ended"],
              tried |-> NoPush, recv |-> NoPush, notified |-> 0,
              steps |-> <<"persist">>]
        ELSE IF chat_id \notin DOMAIN chats
        THEN [result |-> "error", id |-> id, messages |-> rows,
              attachments |-> attachments \o
                  [k \in DOMAIN att_data |-> Attachment(id, att_data[k])],
              active_connections |-> active_connections,
              sessions |-> [sessions EXCEPT ![s].st = "ended"],
              tried |-> NoPush, recv |-> NoPush, notified |-> 0,
              steps |-> <<"persist">>]
        ELSE [result |-> IF raises THEN "error" ELSE "ok",
              id |-> id, messages |-> rows,
              attachments |-> attachments \o
                  [k \in DOMAIN att_data |-> Attachment(id, att_data[k])],
              active_connections |-> sent.reg,
              sessions |-> IF raises THEN [sessions EXCEPT ![s].st = "ended"]
                           ELSE sessions,
              tried |-> sent.tried, recv |-> sent.recv, notified |-> 0,
              steps |-> <<"persist", "fan_out">>]

\* the same for a frame without attachments
message_frame(s, chat_id, content, reply_to_message_id, fail) ==
    message_frame_with(s, chat_id, content, reply_to_message_id, <<>>, fail)

\* websocket_endpoint: a frame of type "typing" on session s
typing_frame(s, chat_id, fail) ==
    LET user_id == sessions[s].user
        other_user_id == IF chats[chat_id].user1_id = user_id
                         THEN chats[chat_id].user2_id
                         ELSE chats[chat_id].user1_id
        sent == send_to_user(active_connections, sessions, other_user_id, fail)
    IN  [result |-> "ok",
         active_connections |-> sent.reg,
         messages |-> messages,
         tried |-> [u \in Users |-> IF u = other_user_id THEN sent.tried ELSE 0],
         recv |-> [u \in Users |-> IF u = other_user_id THEN sent.recv ELSE 0]]

\* get_messages.  With rows to mark, the commit is followed by
\* manager.update_message_status for the first of them, which raises
\* AttributeError: the request fails after the commit and no notification
\* is pushed.
get_messages(chat_id, current_user) ==
    IF ~IsParticipant(chat_id, current_user)
    THEN [result |-> "not_found", messages |-> messages, seen |-> {},
          notified |-> 0]
    ELSE LET marked == seen_messages(chat_id, current_user)
         IN  [result |-> IF marked # {} THEN "error" ELSE "ok",
              messages |-> [i \in DOMAIN messages |->
                              IF i \in marked THEN MarkSeen(messages[i], clock)
                              ELSE messages[i]],
              seen |-> marked,
              notified |-> 0]

\* get_chats: the unread count of each chat it lists
get_chats(current_user) ==
    [c \in {c \in DOMAIN chats : IsParticipant(c, current_user)} |->
        unread_count(messages, c, current_user)]

\* edit_message
edit_message(message_id, content, current_user, fail) ==
    IF message_id \notin DOMAIN messages
    THEN [result |-> "not_found", messages |-> messages,
          active_connections |-> active_connections,
          tried |-> NoPush, recv |-> NoPush]
    ELSE IF ~IsSender(messages[message_id], current_user)
    THEN [result |-> "forbidden", messages |-> messages,
          active_connections |-> active_connections,
          tried |-> NoPush, recv |-> NoPush]
    ELSE LET sent == send_to_users(active_connections, sessions,
                        participants(chats[messages[message_id].chat_id]), fail)
         IN  [result |-> "ok",
              messages |-> [messages EXCEPT ![message_id] =
                              EditedRow(messages[message_id], content)],
              active_connections |-> sent.reg,
              tried |-> sent.tried, recv |-> sent.recv]

\* delete_message
delete_message(message_id, current_user, fail) ==
    IF message_id \notin DOMAIN messages
    THEN [result |-> "not_found", messages |-> messages,
          active_connections |-> active_connections,
          tried |-> NoPush, recv |-> NoPush]
    ELSE IF ~IsSender(messages[message_id], current_user)
    THEN [result |-> "forbidden", messages |-> messages,
          active_connections |-> active_connections,
          tried |-> NoPush, recv |-> NoPush]
    ELSE LET sent == send_to_users(active_connections, sessions,
                        participants(chats[messages[message_id].chat_id]), fail)
         IN  [result |-> "ok",
              messages |-> [messages EXCEPT ![message_id] =
                              DeletedRow(messages[message_id])],
              active_connections |-> sent.reg,
              tried |-> sent.tried, recv |-> sent.recv]

\* add_reaction: the toggle and the broadcast of the new aggregation
add_reaction(message_id, emoji, current_user, fail) ==
    IF message_id \notin DOMAIN messages
    THEN [result |-> "not_found", action |-> "none", reactions |-> reactions,
          formatted_reactions |-> <<>>,
          active_connections |-> active_connections,
          tried |-> NoPush, recv |-> NoPush]
    ELSE LET t == toggle(reactions, message_id, current_user, emoji)
             sent == send_to_users(active_connections, sessions,
                        participants(chats[messages[message_id].chat_id]), fail)
         IN  [result |-> "ok",
              action |-> t.action,
              reactions |-> t.reactions,
              formatted_reactions |-> formatted_reactions(t.reactions, message_id),
              active_connections |-> sent.reg,
              tried |-> sent.tried, recv |-> sent.recv]

\* mutant: the payload read without the signature check
verify_token_Unsigned(token) == token.sub

\* auth.py verify_token: the user id of a token that decodes, else None
verify_token(token) == IF token.valid THEN token.sub ELSE None

\* websocket_endpoint, up to the receive loop, for the connection websocket
\* presenting token.  closed_4001: the close of a connection whose token does
\* not verify or names no user.  status_tried[u] counts the user_status
\* events pushed to u: the endpoint never calls send_user_status_update.
websocket_connect(token, websocket) ==
    LET user_id == verify_token(token)
    IN  IF user_id = None \/ user_id \notin Users
        THEN [result |-> "closed_4001",
              active_connections |-> active_connections,
              sessions |-> sessions, users |-> users, messages |-> messages,
              status_tried |-> NoPush]
        ELSE [result |-> "accepted",
              active_connections |-> connect(active_connections, websocket, user_id),
              sessions |-> [sessions EXCEPT ![websocket] =
                              [user |-> user_id, st |-> "open"]],
              users |-> [users EXCEPT ![user_id] =
                              [is_active |-> TRUE, last_seen |-> clock]],
              messages |-> messages,
              status_tried |-> NoPush]

\* websocket_endpoint: receive_text raises WebSocketDisconnect on session s
websocket_disconnect(s) ==
    LET user_id == sessions[s].user
    IN  [active_connections |-> disconnect(active_connections, user_id),
         sessions |-> [sessions EXCEPT ![s].st = "ended"],
         users |-> [users EXCEPT ![user_id] =
                         [is_active |-> FALSE, last_seen |-> clock]],
         status_tried |-> NoPush]

\* login: for the email of user_id (NoSuchUser: an email of no user) and a
\* password that is the user's or not ("bad_request": the 400)
login(user_id, password_ok) ==
    IF user_id \notin Users \/ ~password_ok
    THEN [result |-> "bad_request", users |-> users]
    ELSE [result |-> "ok",
          users |-> [users EXCEPT ![user_id] =
                          [is_active |-> TRUE, last_seen |-> clock]]]

\* logout
logout(current_user) ==
    [result |-> "ok",
     users |-> [users EXCEPT ![current_user] =
                     [is_active |-> FALSE, last_seen |-> clock]]]

\* create_chat, the route: the chat rows it leaves and the chat id it
\* answers with.  The answer reads the other user's row: for an id that
\* names no user that read raises, after the commit of a new chat.
create_chat_route(current_user, user_id) ==
    LET found == existing_chat(chats, current_user, user_id)
        rows == create_chat(chats, current_user, user_id)
    IN  [result |-> IF user_id \in Users THEN "ok" ELSE "error",
         id |-> IF found # {}
                THEN CHOOSE i \in found : \A j \in found : i <= j
                ELSE Len(rows),
         chats |-> rows]

\* mutant: the lookup in the caller's direction only
existing_request_OneWay(rows, current_user, receiver_id) ==
    {i \in DOMAIN rows :
        rows[i].sender_id = current_user /\ rows[i].receiver_id = receiver_id}

\* create_friend_request: the requests between the two users, of any status
existing_request(rows, current_user, receiver_id) ==
    {i \in DOMAIN rows :
        \/ rows[i].sender_id = current_user /\ rows[i].receiver_id = receiver_id
        \/ rows[i].sender_id = receiver_id /\ rows[i].receiver_id = current_user}

\* create_friend_request ("conflict": the 400 of an existing request)
create_friend_request(current_user, receiver_id, fail) ==
    IF existing_request(friend_requests, current_user, receiver_id) # {}
    THEN [result |-> "conflict", friend_requests |-> friend_requests,
          active_connections |-> active_connections, tried |-> 0, recv |-> 0]
    ELSE LET sent == send_to_user(active_connections, sessions, receiver_id, fail)
         IN  [result |-> "ok",
              friend_requests |-> Append(friend_requests,
                                    FriendRequest(current_user, receiver_id)),
              active_connections |-> sent.reg,
              tried |-> sent.tried, recv |-> sent.recv]

\* update_friend_request
update_friend_request(request_id, status, current_user) ==
    IF \/ request_id \notin DOMAIN friend_requests
       \/ friend_requests[request_id].receiver_id # current_user
    THEN [result |-> "not_found", friend_requests |-> friend_requests,
          friendships |-> friendships]
    ELSE [result |-> "ok",
          friend_requests |-> [friend_requests EXCEPT ![request_id].status = status],
          friendships |->
              IF status = "accepted"
              THEN Append(friendships,
                          Friendship(friend_requests[request_id].sender_id,
                                     friend_requests[request_id].receiver_id))
              ELSE friendships]

(***************************************************************************)
(* The read paths: the content each returns for a stored message.          *)
(***************************************************************************)
\* get_messages: content of the MessageResponse of row i
history_content(i) == messages[i].content

\* get_messages / the message frame: content of the reply preview of row i
reply_preview_content(i) == messages[messages[i].reply_to_message_id].content

\* get_chats: the last message of a chat (the newest row)
last_message(chat_id) ==
    LET ids == {i \in DOMAIN messages : messages[i].chat_id = chat_id}
    IN  IF ids = {} THEN None ELSE CHOOSE i \in ids : \A j \in ids : j <= i

(***************************************************************************)
(* The state machine.                                                      *)
(***************************************************************************)
\* the store after the chat rows of chat_rows were created, nobody connected
InitWith(chat_rows) ==
    /\ chats = chat_rows
    /\ messages = <<>>
    /\ reactions = <<>>
    /\ users = [u \in Users |-> [is_active |-> FALSE, last_seen |-> 1]]
    /\ sessions = [s \in SessionIds |-> [user |-> None, st |-> "free"]]
    /\ active_connections = [u \in Users |-> None]
    /\ clock = 1
    /\ deleted_content = [i \in 1..MaxMessages |-> {}]
    /\ friend_requests = <<>>
    /\ friendships = <<>>
    /\ attachments = <<>>

\* users 1 and 2 have a chat
Init == InitWith(create_chat(<<>>, 1, 2))

\* either users 1 and 2 have a chat, or user 1 has a chat with themselves
\* (create_chat does not compare user_id with the caller) and user 2 is
\* outside of it
InitReact ==
    \E chat_rows \in {create_chat(<<>>, 1, 2), create_chat(<<>>, 1, 1)} :
        InitWith(chat_rows)

\* websocket_endpoint, up to the receive loop, for a connection with token
ConnectWith(token) ==
    /\ FreeSlots # {}
    /\ LET r == websocket_connect(token, LowestFree)
       IN  /\ active_connections' = r.active_connections
           /\ sessions' = Collect(r.sessions, r.active_connections)
           /\ users' = r.users
    /\ UNCHANGED <<attachments, friend_requests, friendships, chats, messages,
                   reactions, clock, deleted_content>>

\* the same for a valid token of user_id
Connect(user_id) == ConnectWith(ValidToken(user_id))

\* websocket_endpoint: receive_text raises WebSocketDisconnect
Disconnect(s) ==
    /\ sessions[s].st = "open"
    /\ LET r == websocket_disconnect(s)
       IN  /\ active_connections' = r.active_connections
           /\ sessions' = Collect(r.sessions, r.active_connections)
           /\ users' = r.users
    /\ UNCHANGED <<attachments, friend_requests, friendships, chats, messages,
                   reactions, clock, deleted_content>>

MessageFrameWith(s, chat_id, content, reply_to_message_id, att_data, fail) ==
    /\ sessions[s].st = "open"
    /\ Len(messages) < MaxMessages
    /\ LET r == message_frame_with(s, chat_id, content, reply_to_message_id,
                                   att_data, fail)
       IN  /\ messages' = r.messages
           /\ attachments' = r.attachments
           /\ active_connections' = r.active_connections
           /\ sessions' = Collect(r.sessions, r.active_connections)
    /\ UNCHANGED <<friend_requests, friendships, chats, reactions, users,
                   clock, deleted_content>>

\* the same for a frame without attachments
MessageFrame(s, chat_id, content, reply_to_message_id, fail) ==
    MessageFrameWith(s, chat_id, content, reply_to_message_id, <<>>, fail)

TypingFrame(s, chat_id, fail) ==
    /\ sessions[s].st = "open"
    /\ LET r == typing_frame(s, chat_id, fail)
       IN  /\ active_connections' = r.active_connections
           /\ sessions' = Collect(sessions, r.active_connections)
    /\ UNCHANGED <<attachments, friend_requests, friendships, chats, messages,
                   reactions, users, clock, deleted_content>>

GetMessages(chat_id, current_user) ==
    /\ messages' = get_messages(chat_id, current_user).messages
    /\ UNCHANGED <<attachments, friend_requests, friendships, chats, reactions,
                   users, sessions, active_connections, clock,
                   deleted_content>>

EditMessage(message_id, content, current_user, fail) ==
    /\ LET r == edit_message(message_id, content, current_user, fail)
       IN  /\ messages' = r.messages
           /\ active_connections' = r.active_connections
           /\ sessions' = Collect(sessions, r.active_connections)
    /\ UNCHANGED <<attachments, friend_requests, friendships, chats, reactions,
                   users, clock, deleted_content>>

\* deleted_content is a history variable: the contents a delete of the row
\* has replaced by the tombstone so far
DeleteMessage(message_id, current_user, fail) ==
    /\ LET r == delete_message(message_id, current_user, fail)
       IN  /\ messages' = r.messages
           /\ active_connections' = r.active_connections
           /\ sessions' = Collect(sessions, r.active_connections)
           /\ deleted_content' =
                  IF r.result = "ok"
                  THEN [deleted_content EXCEPT ![message_id] =
                           @ \cup ({messages[message_id].content} \ {Tombstone})]
                  ELSE deleted_content
    /\ UNCHANGED <<attachments, friend_requests, friendships, chats, reactions,
                   users, clock>>

AddReaction(message_id, emoji, current_user, fail) ==
    /\ LET r == add_reaction(message_id, emoji, current_user, fail)
       IN  /\ reactions' = r.reactions
           /\ active_connections' = r.active_connections
           /\ sessions' = Collect(sessions, r.active_connections)
    /\ UNCHANGED <<attachments, friend_requests, friendships, chats, messages,
                   users, clock, deleted_content>>

CreateChat(current_user, user_id) ==
    /\ chats' = create_chat_route(current_user, user_id).chats
    /\ UNCHANGED <<attachments, messages, reactions, users, sessions,
                   active_connections, clock, deleted_content, friend_requests,
                   friendships>>

CreateFriendRequest(current_user, receiver_id, fail) ==
    /\ LET r == create_friend_request(current_user, receiver_id, fail)
       IN  /\ friend_requests' = r.friend_requests
           /\ active_connections' = r.active_connections
           /\ sessions' = Collect(sessions, r.active_connections)
    /\ UNCHANGED <<attachments, chats, messages, reactions, users, clock,
                   deleted_content, friendships>>

UpdateFriendRequest(request_id, status, current_user) ==
    /\ LET r == update_friend_request(request_id, status, current_user)
       IN  /\ friend_requests' = r.friend_requests
           /\ friendships' = r.friendships
    /\ UNCHANGED <<attachments, chats, messages, reactions, users, sessions,
                   active_connections, clock, deleted_content>>

Login(user_id, password_ok) ==
    /\ users' = login(user_id, password_ok).users
    /\ UNCHANGED <<attachments, friend_requests, friendships, chats, messages,
                   reactions, sessions, active_connections, clock,
                   deleted_content>>

Logout(current_user) ==
    /\ users' = logout(current_user).users
    /\ UNCHANGED <<attachments, friend_requests, friendships, chats, messages,
                   reactions, sessions, active_connections, clock,
                   deleted_content>>

\* datetime.utcnow() advances, up to MaxClock
Tick ==
    /\ clock < MaxClock
    /\ clock' = clock + 1
    /\ UNCHANGED <<attachments, friend_requests, friendships, chats, messages,
                   reactions, users, sessions, active_connections,
                   deleted_content>>

\* the transport outcomes of the pushes of one fan-out (TRUE: the push
\* raises); only a push to an open registered session has two outcomes
Fails(user_ids) ==
    {f \in [1..2 -> BOOLEAN] :
        \A i \in 1..2 :
            f[i] => /\ active_connections[user_ids[i]] # None
                    /\ sessions[active_connections[user_ids[i]]].st = "open"}

ChatOf(message_id) == participants(chats[messages[message_id].chat_id])

DoConnect == \E u \in Users : Connect(u)

DoConnectWith == \E token \in Tokens : ConnectWith(token)

DoDisconnect == \E s \in SessionIds : Disconnect(s)

DoMessageFrameWith(texts) ==
    \E s \in SessionIds, c \in DOMAIN chats, t \in texts, a \in AttData :
        \E f \in Fails(participants(chats[c])) :
            MessageFrameWith(s, c, t, None, a, f)

DoTypingFrame ==
    \E s \in SessionIds, c \in DOMAIN chats, f \in BOOLEAN :
        TypingFrame(s, c, f)

DoMessageFrame(texts) ==
    \E s \in SessionIds, c \in DOMAIN chats, t \in texts :
        \E f \in Fails(participants(chats[c])) : MessageFrame(s, c, t, None, f)

DoGetMessages == \E u \in Users, c \in DOMAIN chats : GetMessages(c, u)

DoEditMessage(texts) ==
    \E u \in Users, m \in DOMAIN messages, t \in texts :
        \E f \in Fails(ChatOf(m)) : EditMessage(m, t, u, f)

DoDeleteMessage ==
    \E u \in Users, m \in DOMAIN messages :
        \E f \in Fails(ChatOf(m)) : DeleteMessage(m, u, f)

\* at most max_rows reaction rows are kept
\* message frames whose chat_id and reply_to_message_id are any the client
\* can put in the frame: ids of rows and ids of no row
DoReplyFrame ==
    \E s \in SessionIds, c \in 1..MaxChats, t \in {"a"},
       r \in 0..(MaxMessages + 1) :
        \E f \in IF c \in DOMAIN chats THEN Fails(participants(chats[c]))
                 ELSE {[i \in 1..2 |-> FALSE]} :
            MessageFrame(s, c, t, r, f)

DoAddReaction(emojis, max_rows) ==
    \E u \in Users, m \in DOMAIN messages, e \in emojis :
        \E f \in Fails(ChatOf(m)) :
            /\ add_reaction(m, e, u, f).action = "added"
                  => Len(reactions) < max_rows
            /\ AddReaction(m, e, u, f)

\* at most MaxChats chat rows are kept
DoCreateChat ==
    \E u \in Users, v \in UserIds :
        /\ Len(create_chat_route(u, v).chats) <= MaxChats
        /\ CreateChat(u, v)

\* at most MaxFriendRequests request rows are kept
DoCreateFriendRequest ==
    \E u \in Users, v \in Users, f \in BOOLEAN :
        /\ f => /\ active_connections[v] # None
                /\ sessions[active_connections[v]].st = "open"
        /\ Len(create_friend_request(u, v, f).friend_requests) <= MaxFriendRequests
        /\ CreateFriendRequest(u, v, f)

\* at most MaxFriendships friendship rows are kept
DoUpdateFriendRequest ==
    \E u \in Users, i \in DOMAIN friend_requests, st \in Statuses :
        /\ Len(update_friend_request(i, st, u).friendships) <= MaxFriendships
        /\ UpdateFriendRequest(i, st, u)

\* the message routes and the WebSocket handler, with two message texts
Next ==
    \/ DoConnect
    \/ DoDisconnect
    \/ DoMessageFrame(Contents)
    \/ DoGetMessages
    \/ DoEditMessage(Contents)
    \/ DoDeleteMessage

Spec == Init /\ [][Next]_vars

\* the same with the reaction route, with one message text, in either store
NextReact ==
    \/ DoConnect
    \/ DoDisconnect
    \/ DoMessageFrame({"a"})
    \/ DoGetMessages
    \/ DoEditMessage({"a"})
    \/ DoDeleteMessage
    \/ DoAddReaction({"+"}, MaxReactions)

SpecReact == InitReact /\ [][NextReact]_vars

\* the reaction route with every emoji, on the messages that users 1 and 2
\* send into their chat
NextToggle ==
    \/ DoConnect
    \/ DoMessageFrame({"a"})
    \/ DoAddReaction(Emojis, MaxToggled)

SpecToggle == Init /\ [][NextToggle]_vars

\* the WebSocket endpoint: connections with any token, message frames with
\* attachments and typing frames, in either store
NextFrames ==
    \/ DoConnectWith
    \/ DoDisconnect
    \/ DoMessageFrameWith({"a"})
    \/ DoTypingFrame

SpecFrames == InitReact /\ [][NextFrames]_vars

\* users 1 and 2 have a chat and have both connected, user u on session u
InitConnected ==
    /\ chats = create_chat(<<>>, 1, 2)
    /\ messages = <<>>
    /\ reactions = <<>>
    /\ users = [u \in Users |-> [is_active |-> TRUE, last_seen |-> 1]]
    /\ sessions = [s \in SessionIds |->
                     IF s \in Users THEN [user |-> s, st |-> "open"]
                     ELSE [user |-> None, st |-> "free"]]
    /\ active_connections = [u \in Users |-> u]
    /\ clock = 1
    /\ deleted_content = [i \in 1..MaxMessages |-> {}]
    /\ friend_requests = <<>>
    /\ friendships = <<>>
    /\ attachments = <<>>

\* the message and reaction routes and the message frame while time passes
NextClock ==
    \/ DoMessageFrame({"a"})
    \/ DoGetMessages
    \/ DoEditMessage({"a"})
    \/ DoDeleteMessage
    \/ DoAddReaction({"+"}, MaxReactions)
    \/ Tick

SpecClock == InitConnected /\ [][NextClock]_vars

DoLogin == \E u \in UserIds, ok \in BOOLEAN : Login(u, ok)

DoLogout == \E u \in Users : Logout(u)

\* presence: login, logout, connect, disconnect and the typing frames whose
\* push can fail
NextPresence ==
    \/ Tick
    \/ DoLogin
    \/ DoLogout
    \/ DoConnect
    \/ DoDisconnect
    \/ DoTypingFrame

SpecPresence == Init /\ [][NextPresence]_vars

\* frames with references: connect, disconnect, message frames with any
\* chat_id and reply_to_message_id, and the history read
NextReply ==
    \/ DoConnect
    \/ DoDisconnect
    \/ DoReplyFrame
    \/ DoGetMessages

SpecReply == Init /\ [][NextReply]_vars

\* nobody has a chat yet
InitEmpty == InitWith(<<>>)

\* the chat route, for users that connect and disconnect
NextChats ==
    \/ DoConnect
    \/ DoDisconnect
    \/ DoCreateChat

SpecChats == InitEmpty /\ [][NextChats]_vars

\* the friend request routes, for users that connect and disconnect
NextFriends ==
    \/ DoConnect
    \/ DoDisconnect
    \/ DoCreateFriendRequest
    \/ DoUpdateFriendRequest

SpecFriends == InitEmpty /\ [][NextFriends]_vars

(***************************************************************************)
(* Properties.                                                             *)
(***************************************************************************)
Rank(status) ==
    CASE status = "sent" -> 1 [] status = "delivered" -> 2 [] status = "seen" -> 3

AllFails == [1..2 -> BOOLEAN]

\* the participant of chat_id other than user_id, if there is one
OtherParticipants(chat_id, user_id) ==
    {chats[chat_id].user1_id, chats[chat_id].user2_id} \ {user_id}

\* C1: in every step (message frame, history fetch, edit, delete, reaction,
\* connect, disconnect) the delivery status of every message stays or moves
\* forward in sent -> delivered -> seen, and a seen message stays seen.
C1_StatusOnlyMovesForward ==
    [][\A i \in DOMAIN messages :
          /\ Rank(messages'[i].status) >= Rank(messages[i].status)
          /\ messages[i].status = "seen" => messages'[i].status = "seen"]_vars

\* a seen message that has since been edited, deleted and reacted to
C1_Witness ==
    \E i \in DOMAIN messages :
        /\ messages[i].status = "seen"
        /\ messages[i].is_edited
        /\ messages[i].is_deleted
        /\ \E j \in DOMAIN reactions : reactions[j].message_id = i

\* C2: a history fetch of a chat by a participant V leaves every message of
\* the chat not sent by V seen with seen_at stamped, and leaves the status
\* and seen_at of V's own messages as they were.  This holds of the fetch
\* that answers and of the fetch that fails after its commit alike.
C2_FetchMarksOthersSeen ==
    \A V \in Users, c \in DOMAIN chats :
        LET r == get_messages(c, V)
        IN  r.result # "not_found" =>
              \A i \in DOMAIN messages :
                  messages[i].chat_id = c =>
                      IF messages[i].sender_id # V
                      THEN /\ r.messages[i].status = "seen"
                           /\ r.messages[i].seen_at # None
                      ELSE /\ r.messages[i].status = messages[i].status
                           /\ r.messages[i].seen_at = messages[i].seen_at

\* a fetch that answers, in a chat holding a message of the peer and an
\* unseen message of the viewer
C2_Witness ==
    \E V \in Users, c \in DOMAIN chats :
        /\ get_messages(c, V).result = "ok"
        /\ \E i \in DOMAIN messages :
              messages[i].chat_id = c /\ messages[i].sender_id # V
        /\ \E i \in DOMAIN messages :
              /\ messages[i].chat_id = c
              /\ messages[i].sender_id = V
              /\ messages[i].status = "sent"

\* C3: a message frame handled while the non-sender participant is
\* registered and the push to that participant succeeds leaves the new
\* message at status delivered.
C3_DeliveredOnPush ==
    \A s \in OpenSessions, c \in DOMAIN chats, t \in Contents, f \in AllFails :
        LET r == message_frame(s, c, t, None, f)
        IN  (\E p \in OtherParticipants(c, sessions[s].user) :
                active_connections[p] # None /\ r.recv[p] >= 1)
            => r.messages[r.id].status = "delivered"

\* C4: a message frame from A while the other participant B has no
\* registered session leaves the message at sent with delivered_at unset,
\* pushes nothing to B, and leaves A's session running; a later history
\* fetch by B makes A's messages seen.
C4_OfflineRecipient ==
    /\ \A s \in OpenSessions, c \in DOMAIN chats, t \in Contents, f \in AllFails :
          LET r == message_frame(s, c, t, None, f)
          IN  \A B \in OtherParticipants(c, sessions[s].user) :
                  active_connections[B] = None =>
                      /\ r.messages[r.id].status = "sent"
                      /\ r.messages[r.id].delivered_at = None
                      /\ r.tried[B] = 0
                      /\ r.notified = 0
                      /\ r.sessions[s].st = "open"
    /\ \A B \in Users, c \in DOMAIN chats :
          IsParticipant(c, B) =>
              \A i \in DOMAIN messages :
                  messages[i].chat_id = c /\ messages[i].sender_id # B =>
                      get_messages(c, B).messages[i].status = "seen"

\* C5: a history fetch by V that moves k messages to seen answers, and
\* pushes k seen notifications (to a registered sender); a fetch that moves
\* none pushes none.
C5_SeenNotifications ==
    \A V \in Users, c \in DOMAIN chats :
        LET r == get_messages(c, V)
            k == Cardinality(r.seen)
        IN  /\ k > 0 => r.result = "ok"
            /\ (k > 0 /\ \A i \in r.seen :
                            active_connections[messages[i].sender_id] # None)
               => r.notified = k
            /\ k = 0 => r.notified = 0

\* C6: the unread count that the chat listing reports to a participant V
\* of a chat is 0 right after V's fetch of the chat, grows by one with
\* every message another user sends into the chat, and is changed by
\* nothing else: it is the number of messages of the chat not sent by V
\* that V has not fetched.
C6_UnreadCount ==
    [][\A V \in Users, c \in DOMAIN chats :
          IsParticipant(c, V) =>
              LET added == {i \in (DOMAIN messages') \ (DOMAIN messages) :
                              /\ messages'[i].chat_id = c
                              /\ messages'[i].sender_id # V}
              IN  IF messages' = get_messages(c, V).messages
                  THEN unread_count(messages', c, V) = 0
                  ELSE unread_count(messages', c, V)
                         = unread_count(messages, c, V) + Cardinality(added)]_vars

\* the peer sent two messages that the viewer has not fetched
C6_Witness ==
    \E V \in Users, c \in DOMAIN chats :
        /\ IsParticipant(c, V)
        /\ get_chats(V)[c] = 2
        /\ unread_count(get_messages(c, V).messages, c, V) = 0

\* C7: an edit by the original sender sets the content to the request's
\* and the edited flag, and leaves status, delivered_at, seen_at, the
\* deleted flag, sender and chat of the message as they were.
C7_EditFrame ==
    \A u \in Users, m \in DOMAIN messages, t \in Contents, f \in AllFails :
        messages[m].sender_id = u =>
            LET r == edit_message(m, t, u, f)
            IN  /\ r.result = "ok"
                /\ r.messages[m].content = t
                /\ r.messages[m].is_edited
                /\ r.messages[m].status = messages[m].status
                /\ r.messages[m].delivered_at = messages[m].delivered_at
                /\ r.messages[m].seen_at = messages[m].seen_at
                /\ r.messages[m].is_deleted = messages[m].is_deleted
                /\ r.messages[m].sender_id = messages[m].sender_id
                /\ r.messages[m].chat_id = messages[m].chat_id

\* a seen message, edited once already, that its sender edits to another
\* content
C7_Witness ==
    \E m \in DOMAIN messages, t \in Contents :
        /\ messages[m].status = "seen"
        /\ messages[m].is_edited
        /\ messages[m].content # t
        /\ edit_message(m, t, messages[m].sender_id, [i \in 1..2 |-> FALSE]).result = "ok"

\* C8: an edit or a delete by a user other than the message's sender is
\* answered Forbidden, leaves every message as it was and pushes nothing.
C8_ForbiddenNoMutation ==
    \A u \in Users, m \in DOMAIN messages, t \in Contents, f \in AllFails :
        messages[m].sender_id # u =>
            LET e == edit_message(m, t, u, f)
                d == delete_message(m, u, f)
            IN  /\ e.result = "forbidden"
                /\ e.messages = messages
                /\ e.tried = NoPush
                /\ e.active_connections = active_connections
                /\ d.result = "forbidden"
                /\ d.messages = messages
                /\ d.tried = NoPush
                /\ d.active_connections = active_connections

\* a message whose sender and a second user are both registered, the
\* second user asking for the edit
C8_Witness ==
    \E u \in Users, m \in DOMAIN messages :
        /\ messages[m].sender_id # u
        /\ active_connections[u] # None
        /\ sessions[active_connections[u]].st = "open"
        /\ IsParticipant(messages[m].chat_id, u)
        /\ \E t \in Contents :
              /\ messages[m].content # t
              /\ edit_message(m, t, u, [i \in 1..2 |-> FALSE]).result = "forbidden"

\* C9: a delete by the sender keeps the row, sets the deleted flag and the
\* tombstone content, and from then on no read path (history, last message
\* of the chat listing, reply preview) returns a content that the delete
\* replaced.
C9_DeletedContentGone ==
    /\ \A u \in Users, m \in DOMAIN messages, f \in AllFails :
          messages[m].sender_id = u =>
              LET r == delete_message(m, u, f)
              IN  /\ Len(r.messages) = Len(messages)
                  /\ r.messages[m].is_deleted
                  /\ r.messages[m].content = Tombstone
    /\ \A i \in DOMAIN messages :
          /\ history_content(i) \notin deleted_content[i]
          /\ last_message(messages[i].chat_id) = i =>
                messages[i].content \notin deleted_content[i]
          /\ \A j \in DOMAIN messages :
                messages[j].reply_to_message_id = i =>
                    reply_preview_content(j) \notin deleted_content[i]

\* C10: every edit, delete and reaction toggle that answers pushes its
\* event exactly once to each participant of the chat registered at the
\* time, and to nobody else.
ExactlyOncePerParticipant(chat_id, tried) ==
    \A p \in Users :
        tried[p] = IF IsParticipant(chat_id, p) /\ active_connections[p] # None
                   THEN 1 ELSE 0

C10_OneEventPerParticipant ==
    \A u \in Users, m \in DOMAIN messages, t \in Contents, em \in Emojis,
       f \in AllFails :
        LET e == edit_message(m, t, u, f)
            d == delete_message(m, u, f)
            a == add_reaction(m, em, u, f)
            c == messages[m].chat_id
        IN  /\ e.result = "ok" => ExactlyOncePerParticipant(c, e.tried)
            /\ d.result = "ok" => ExactlyOncePerParticipant(c, d.tried)
            /\ a.result = "ok" => ExactlyOncePerParticipant(c, a.tried)

NoFail == [i \in 1..2 |-> FALSE]

\* the users holding emoji on message_id in the reaction rows
holders(rows, message_id, emoji) ==
    {rows[i].user_id : i \in {i \in DOMAIN rows :
        rows[i].message_id = message_id /\ rows[i].emoji = emoji}}

\* C11: for every (message, user, emoji) a react call removes the triple
\* when it exists (action removed) and creates it otherwise (action added),
\* leaving every other triple as it was, and a second react call with the
\* same arguments brings the triple back to what it was before the first.
C11_ToggleTwice ==
    \A m \in DOMAIN messages, u \in Users, e \in Emojis :
        LET had == existing_reaction(reactions, m, u, e) # {}
            a == add_reaction(m, e, u, NoFail)
            t2 == toggle(a.reactions, m, u, e)
        IN  /\ a.result = "ok"
            /\ a.action = IF had THEN "removed" ELSE "added"
            /\ (existing_reaction(a.reactions, m, u, e) # {}) = ~had
            /\ t2.action = IF had THEN "added" ELSE "removed"
            /\ (existing_reaction(t2.reactions, m, u, e) # {}) = had
            /\ \A m2 \in DOMAIN messages, u2 \in Users, e2 \in Emojis :
                  <<m2, u2, e2>> # <<m, u, e>> =>
                      /\ existing_reaction(a.reactions, m2, u2, e2) # {}
                            <=> existing_reaction(reactions, m2, u2, e2) # {}
                      /\ existing_reaction(t2.reactions, m2, u2, e2) # {}
                            <=> existing_reaction(reactions, m2, u2, e2) # {}

\* a user holds one emoji on a message and not the other, among other rows
C11_Witness ==
    \E m \in DOMAIN messages, u \in Users :
        /\ existing_reaction(reactions, m, u, "+") # {}
        /\ existing_reaction(reactions, m, u, "-") = {}
        /\ Len(reactions) >= 2

\* C12: in every reachable state, whatever the order in which the react
\* requests of the users are handled, no two reaction rows hold the same
\* (message, user, emoji).
C12_UniqueTriple ==
    \A i, j \in DOMAIN reactions : reactions[i] = reactions[j] => i = j

\* a user holds both emojis on one message, and a react call of that user
\* naming one of them again is answered as a removal
C12_Witness ==
    \E m \in DOMAIN messages, u \in Users :
        /\ \A e \in Emojis : existing_reaction(reactions, m, u, e) # {}
        /\ Len(reactions) = MaxToggled
        /\ add_reaction(m, "+", u, NoFail).action = "removed"

\* C13: the aggregation that a reaction toggle returns and broadcasts lists
\* every emoji held on the message by some user exactly once, with the
\* count and the user list of exactly the users holding it after the toggle,
\* and lists no other emoji.
C13_Aggregation ==
    \A m \in DOMAIN messages, u \in Users, e \in Emojis :
        LET a == add_reaction(m, e, u, NoFail)
            agg == a.formatted_reactions
        IN  /\ \A em \in Emojis :
                  LET h == holders(a.reactions, m, em)
                      ks == {k \in DOMAIN agg : agg[k].emoji = em}
                  IN  /\ Cardinality(ks) = IF h = {} THEN 0 ELSE 1
                      /\ \A k \in ks :
                            /\ agg[k].count = Cardinality(h)
                            /\ Len(agg[k].users) = Cardinality(h)
                            /\ {agg[k].users[x] : x \in DOMAIN agg[k].users} = h
            /\ \A k \in DOMAIN agg : agg[k].emoji \in Emojis

\* after a toggle that added, a message carries one emoji held by both
\* users and another held by one
C13_Witness ==
    \E m \in DOMAIN messages :
        LET agg == formatted_reactions(reactions, m)
        IN  /\ Len(agg) = 2
            /\ \E k \in DOMAIN agg : agg[k].count = 2
            /\ \E k \in DOMAIN agg : agg[k].count = 1
            /\ \E u \in Users, e \in Emojis :
                  add_reaction(m, e, u, NoFail).action = "removed"

\* the pending requests between users a and b, in either direction
pending_between(rows, a, b) ==
    {i \in existing_request(rows, a, b) : rows[i].status = "pending"}

C15_TwoParticipants ==
    \A i \in DOMAIN chats :
        /\ chats[i].user1_id # chats[i].user2_id
        /\ chats[i].user1_id \in Users
        /\ chats[i].user2_id \in Users

\* C16: every pair of users has at most one pending friend request between
\* them, counting both directions, and a friend request in either direction
\* while one is pending is answered Conflict, adds no row and pushes nothing.
C16_OnePendingPerPair ==
    /\ \A a \in Users, b \in Users :
          Cardinality(pending_between(friend_requests, a, b)) <= 1
    /\ \A a \in Users, b \in Users, f \in BOOLEAN :
          pending_between(friend_requests, a, b) # {} =>
              LET r == create_friend_request(a, b, f)
                  q == create_friend_request(b, a, f)
              IN  /\ r.result = "conflict" /\ q.result = "conflict"
                  /\ r.friend_requests = friend_requests
                  /\ q.friend_requests = friend_requests
                  /\ r.tried = 0 /\ q.tried = 0

\* user 2 has sent user 1 a request that is pending, user 2 is registered,
\* and another request exists
C16_Witness ==
    /\ \E i \in pending_between(friend_requests, 1, 2) :
          friend_requests[i].sender_id = 2
    /\ Len(friend_requests) = 2
    /\ active_connections[2] # None

\* C17: a step adds a friendship exactly when it moves a friend request
\* from a status other than accepted to accepted: then it adds one, between
\* the request's two users; a rejection adds none, and so does an update
\* that leaves the request accepted or not accepted.
C17_FriendshipOnAccept ==
    [][LET accepted == {i \in DOMAIN friend_requests :
                          /\ friend_requests[i].status # "accepted"
                          /\ friend_requests'[i].status = "accepted"}
       IN  /\ Len(friendships') = Len(friendships) + Cardinality(accepted)
           /\ \A k \in DOMAIN friendships : friendships'[k] = friendships[k]
           /\ \A i \in accepted :
                 friendships'[Len(friendships')] =
                     Friendship(friend_requests[i].sender_id,
                                friend_requests[i].receiver_id)]_vars

\* C18: the status of every friend request is pending, accepted or
\* rejected, whatever status the receiver submits.
C18_StatusDomain ==
    \A i \in DOMAIN friend_requests :
        friend_requests[i].status \in {"pending", "accepted", "rejected"}

\* the sessions of user_id whose handler is in its receive loop
live_sessions(user_id) ==
    {s \in SessionIds : sessions[s].st = "open" /\ sessions[s].user = user_id}

\* C19: the registry holds at most one session per user, and a register
\* for a user, whether or not the user had an entry, leaves the entry of
\* that user at the session just registered; no step brings an entry back
\* to a session registered earlier.
C19_LastConnectWins ==
    [][/\ \A u \in Users :
            Cardinality({s \in SessionIds : active_connections'[u] = s}) <= 1
       /\ \A s \in SessionIds :
            sessions[s].st = "free" /\ sessions'[s].st = "open" =>
                active_connections'[sessions'[s].user] = s
       /\ \A u \in Users :
            active_connections'[u] # active_connections[u] =>
                \/ active_connections'[u] = None
                \/ sessions[active_connections'[u]].st = "free"]_vars

\* a user registered twice: the entry is the second session, the first
\* session is still in its receive loop
C19_Witness ==
    \E u \in Users, s \in SessionIds, t \in SessionIds :
        /\ s # t
        /\ {s, t} \subseteq live_sessions(u)
        /\ active_connections[u] = t
        /\ active_connections[3 - u] = None

\* C20: a register that displaces a session of the same user closes the
\* displaced session: in every state the only session that is live and
\* accepts frames for a user is the one the registry holds for that user.
C20_DisplacedClosed ==
    \A u \in Users :
        \A s \in live_sessions(u) : active_connections[u] = s

\* the users holding a registry entry in reg
registered(reg) == {u \in Users : reg[u] # None}

\* C21: the disconnect of a session that is not the session the registry
\* holds for its user (the user has connected again since) leaves that
\* user's registry entry as it is and the user active.
C21_StaleDisconnect ==
    \A s \in OpenSessions :
        LET u == sessions[s].user
            r == websocket_disconnect(s)
        IN  active_connections[u] \notin {None, s} =>
                /\ r.active_connections[u] = active_connections[u]
                /\ r.users[u].is_active

\* C22: a connect with a valid token of an existing user marks the user
\* active, stamps last_seen, and pushes one user_status event to every user
\* registered once the connect has registered the session.
C22_OnlineBroadcast ==
    \A u \in Users, s \in FreeSlots :
        LET r == websocket_connect(ValidToken(u), s)
        IN  /\ r.result = "accepted"
            /\ r.users[u].is_active
            /\ r.users[u].last_seen = clock
            /\ \A p \in registered(r.active_connections) : r.status_tried[p] = 1

\* C23: the end of a session's handler, by a disconnect or by an error
\* raised while it handles a frame, leaves the session out of the registry
\* and its user inactive, and pushes one user_status event to every user
\* still registered.
C23_CleanupOnEnd ==
    /\ \A s \in OpenSessions :
          LET u == sessions[s].user
              r == websocket_disconnect(s)
          IN  /\ r.active_connections[u] # s
              /\ ~r.users[u].is_active
              /\ \A p \in registered(r.active_connections) : r.status_tried[p] = 1
    /\ \A s \in OpenSessions, c \in DOMAIN chats, t \in Contents, a \in AttData,
          f \in AllFails :
          LET u == sessions[s].user
              r == message_frame_with(s, c, t, None, a, f)
          IN  r.sessions[s].st = "ended" =>
                  /\ r.active_connections[u] # s
                  /\ ~users[u].is_active

\* C27: a connection whose token does not verify, or verifies to an id
\* that names no user, is closed with code 4001 and leaves the registry,
\* the sessions, every user's presence and last_seen and the messages as
\* they were.
C27_RefusedConnect ==
    \A token \in Tokens, s \in FreeSlots :
        (~token.valid \/ token.sub \notin Users) =>
            LET r == websocket_connect(token, s)
            IN  /\ r.result = "closed_4001"
                /\ r.active_connections = active_connections
                /\ r.sessions = sessions
                /\ r.users = users
                /\ r.messages = messages
                /\ r.status_tried = NoPush

\* a store with a message and a registered user, one connection slot free:
\* a connection with an unsigned token naming that user is refused
C27_Witness ==
    /\ FreeSlots # {}
    /\ Len(messages) >= 1
    /\ \E u \in Users :
          /\ active_connections[u] # None
          /\ users[u].is_active
          /\ websocket_connect([sub |-> u, valid |-> FALSE], LowestFree).result
                = "closed_4001"

\* the push to user u of a fan-out to user_ids with outcomes fail reaches
\* an open registered session and does not raise
push_succeeds(user_ids, fail, u) ==
    /\ active_connections[u] # None
    /\ sessions[active_connections[u]].st = "open"
    /\ \A i \in 1..2 : user_ids[i] = u => ~fail[i]

\* C24: send_to_user does nothing for a user without a registry entry; for
\* a registered user it attempts one push, and a push that fails removes the
\* user's entry.  No failure reaches the caller: an edit, a delete, a
\* reaction, a friend request and a message frame answer and leave their
\* row written, whatever the outcome of the pushes.
C24_DeliverToUser ==
    /\ \A u \in Users, f \in BOOLEAN :
          LET r == send_to_user(active_connections, sessions, u, f)
          IN  IF active_connections[u] = None
              THEN r.tried = 0 /\ r.reg = active_connections
              ELSE /\ r.tried = 1
                   /\ r.recv = 0 => r.reg[u] = None
                   /\ r.recv = 1 => r.reg = active_connections
    /\ \A u \in Users, m \in DOMAIN messages, f \in AllFails :
          messages[m].sender_id = u =>
              /\ edit_message(m, "b", u, f).result = "ok"
              /\ edit_message(m, "b", u, f).messages[m].content = "b"
              /\ delete_message(m, u, f).result = "ok"
              /\ delete_message(m, u, f).messages[m].is_deleted
    /\ \A u \in Users, m \in DOMAIN messages, e \in Emojis, f \in AllFails :
          /\ add_reaction(m, e, u, f).result = "ok"
          /\ add_reaction(m, e, u, f).reactions # reactions
    /\ \A u \in Users, v \in Users, f \in BOOLEAN :
          existing_request(friend_requests, u, v) = {} =>
              /\ create_friend_request(u, v, f).result = "ok"
              /\ Len(create_friend_request(u, v, f).friend_requests)
                    = Len(friend_requests) + 1
    /\ \A s \in OpenSessions, c \in DOMAIN chats, f \in AllFails :
          LET r == message_frame(s, c, "a", None, f)
          IN  /\ r.result = "ok"
              /\ r.id \in DOMAIN r.messages
              /\ r.sessions[s].st = "open"

\* C25: in send_to_users and in broadcast, whichever pushes fail, every
\* other registered recipient of the target set receives the event exactly
\* once.
C25_IndependentDelivery ==
    /\ \A c \in DOMAIN chats, f \in AllFails :
          LET r == send_to_users(active_connections, sessions,
                                 participants(chats[c]), f)
          IN  \A u \in Users :
                  /\ IsParticipant(c, u)
                  /\ push_succeeds(participants(chats[c]), f, u)
                  => r.recv[u] = 1
    /\ \A f \in [Users -> BOOLEAN] :
          LET r == broadcast(active_connections, sessions, f)
          IN  \A u \in Users :
                  /\ active_connections[u] # None
                  /\ sessions[active_connections[u]].st = "open"
                  /\ ~f[u]
                  => r.recv[u] = 1

\* C26: after a push that failed, in send_to_user, in send_to_users and in
\* broadcast alike, the user whose push failed has no registry entry.
C26_FailedPushEvicts ==
    /\ \A u \in Users, f \in BOOLEAN :
          LET r == send_to_user(active_connections, sessions, u, f)
          IN  r.tried > r.recv => r.reg[u] = None
    /\ \A c \in DOMAIN chats, f \in AllFails :
          LET r == send_to_users(active_connections, sessions,
                                 participants(chats[c]), f)
          IN  \A u \in Users : r.tried[u] > r.recv[u] => r.reg[u] = None
    /\ \A f \in [Users -> BOOLEAN] :
          LET r == broadcast(active_connections, sessions, f)
          IN  \A u \in Users : r.tried[u] > r.recv[u] => r.reg[u] = None

\* C28: a message frame leaves the message stored with all the attachments
\* of the frame, or leaves no message.
C28_AttachmentsAtomic ==
    \A s \in OpenSessions, c \in DOMAIN chats, a \in AttData, f \in AllFails :
        LET r == message_frame_with(s, c, "a", None, a, f)
            stored == SelectSeq(r.attachments, LAMBDA x : x.message_id = r.id)
        IN  r.id \in DOMAIN r.messages =>
                /\ Len(stored) = Len(a)
                /\ \A k \in DOMAIN a : stored[k].filename = a[k]

\* C29: a typing frame from a participant of the chat pushes one typing
\* event to the other participant, if registered, pushes none to the sender
\* and none to a user outside the chat, and leaves the messages as they
\* were.
C29_TypingFrame ==
    \A s \in OpenSessions, c \in DOMAIN chats, f \in BOOLEAN :
        LET u == sessions[s].user
            r == typing_frame(s, c, f)
        IN  IsParticipant(c, u) =>
                /\ r.result = "ok"
                /\ r.messages = messages
                /\ r.tried[u] = 0
                /\ \A p \in Users :
                      r.tried[p] = IF /\ p # u
                                      /\ IsParticipant(c, p)
                                      /\ active_connections[p] # None
                                   THEN 1 ELSE 0

\* C30: a message frame persists the message, at status sent, before it
\* fans the message event out; every participant of the chat with an open
\* registered session, the sender included, receives the event exactly once
\* when no push raises; and the handler does nothing about delivery before
\* the fan-out.
C30_PersistThenFanOut ==
    \A s \in OpenSessions, c \in DOMAIN chats :
        LET r == message_frame(s, c, "a", None, NoFail)
        IN  /\ r.steps = <<"persist", "fan_out">>
            /\ r.messages[r.id].status = "sent"
            /\ \A p \in Users :
                  r.recv[p] = IF /\ IsParticipant(c, p)
                                 /\ push_succeeds(participants(chats[c]), NoFail, p)
                              THEN 1 ELSE 0

\* C31: seen_at and delivered_at of a message are written once: a step
\* leaves a timestamp that is set as it is, whatever the time of the step,
\* and sets seen_at (delivered_at) only in the step that moves the message
\* to seen (delivered).
C31_TimestampsOnce ==
    [][\A i \in DOMAIN messages :
          /\ messages[i].seen_at # None =>
                messages'[i].seen_at = messages[i].seen_at
          /\ messages[i].delivered_at # None =>
                messages'[i].delivered_at = messages[i].delivered_at
          /\ messages'[i].seen_at # messages[i].seen_at =>
                messages[i].status # "seen" /\ messages'[i].status = "seen"
          /\ messages'[i].delivered_at # messages[i].delivered_at =>
                messages[i].status = "sent" /\ messages'[i].status = "delivered"]_vars

\* a message seen at an earlier time, since edited, deleted and reacted to,
\* that its chat's other participant can fetch again now
C31_Witness ==
    \E i \in DOMAIN messages, V \in Users :
        /\ messages[i].seen_at # None
        /\ messages[i].seen_at < clock
        /\ messages[i].is_edited
        /\ messages[i].is_deleted
        /\ \E j \in DOMAIN reactions : reactions[j].message_id = i
        /\ V # messages[i].sender_id
        /\ get_messages(messages[i].chat_id, V).result = "ok"

\* C32: in every state delivered_at is set only on a message whose status
\* is delivered or seen, and seen_at is set exactly on the messages whose
\* status is seen.
C32_TimestampsAgree ==
    \A i \in DOMAIN messages :
        /\ messages[i].delivered_at # None =>
              messages[i].status \in {"delivered", "seen"}
        /\ messages[i].seen_at # None <=> messages[i].status = "seen"

\* a seen message stamped at a later time than the start, next to a message
\* not yet seen
C32_Witness ==
    \E i \in DOMAIN messages, j \in DOMAIN messages :
        /\ messages[i].status = "seen"
        /\ messages[i].seen_at > 1
        /\ messages[j].status = "sent"
        /\ messages[j].seen_at = None

\* C33: in every state reached by logins, logouts, connects, disconnects
\* and failed pushes, a user's is_active flag is true exactly when the
\* registry holds a session for the user.
C33_PresenceMatchesRegistry ==
    \A u \in Users : users[u].is_active <=> active_connections[u] # None

\* C34: a message whose deleted flag is set has the tombstone as its
\* content, and a step leaves the deleted flag of a deleted message set.
C34_TombstoneStays ==
    [][\A i \in DOMAIN messages :
          /\ messages[i].is_deleted => messages'[i].is_deleted
          /\ messages'[i].is_deleted => messages'[i].content = Tombstone]_vars

\* C35: every message was sent by a participant of its chat and every
\* reaction was made by a participant of the chat of its message.
C35_CreatedByParticipants ==
    /\ \A i \in DOMAIN messages :
          IsParticipant(messages[i].chat_id, messages[i].sender_id)
    /\ \A j \in DOMAIN reactions :
          IsParticipant(messages[reactions[j].message_id].chat_id,
                        reactions[j].user_id)

\* C36: a message with a reply-to reference refers to a stored message of
\* the same chat.
C36_ReplyTargetInChat ==
    \A i \in DOMAIN messages :
        messages[i].reply_to_message_id # None =>
            /\ messages[i].reply_to_message_id \in DOMAIN messages
            /\ messages[messages[i].reply_to_message_id].chat_id
                   = messages[i].chat_id
====
